---- MODULE Spec2Model ----
(***************************************************************************)
(* Model of the pollutant-to-risk scoring engine of app7.py: the three     *)
(* copies of the PM2.5 -> AQI converter, the agriculture, healthcare and   *)
(* real-estate scoring operations and their label ladders, the forecast    *)
(* path, the provider calls and the page flows.                            *)
(*                                                                         *)
(* Numbers.  The program computes in binary floating point; the model      *)
(* computes the same expressions exactly, in integers:                     *)
(*   - a concentration is held in hundredths of a ug/m3 (12.1 is 1210);    *)
(*   - an agriculture impact and a health risk score are held multiplied   *)
(*     by ScoreScale, a suitability score multiplied by 3.                 *)
(* On the grids used here the exact value and the double agree in every    *)
(* comparison and truncation the program makes, except calculate_aqi at    *)
(* 200.45, where the double is 249.99.. and truncates to 249 (exact: 250). *)
(***************************************************************************)
EXTENDS Integers, Sequences, FiniteSets, TLC

VARIABLES
    req,    \* the call being made: operation and arguments
    pc,     \* "ready" before the call runs, "done" after it returned
    res,    \* what the call returned
    prev,   \* the preceding calculate_aqi call of the session: input, result
    view,   \* what a page of the dashboard has rendered so far
    net     \* the HTTP requests issued: in this call, in all, last outcome

vars == <<req, pc, res, prev, view, net>>

----------------------------------------------------------------------------
\* Bounds

\* largest PM2.5 input, in hundredths of a ug/m3 (300.00)
MaxPM == 30000
\* a later calculate_aqi call is made with an input up to MaxGap hundredths above
MaxGap == 2

PMGrid == 0..MaxPM

----------------------------------------------------------------------------
\* int(): truncation toward zero of the quotient n/d, d > 0
Trunc(n, d) == IF n >= 0 THEN n \div d ELSE -((-n) \div d)

Min(a, b) == IF a <= b THEN a ELSE b
Max(a, b) == IF a >= b THEN a ELSE b

\* lo + ((hi - lo) / (c_hi - c_lo)) * (pm25 - c_lo), truncated; c in hundredths
Interpolate(lo, hi, c_lo, c_hi, p) ==
    Trunc(lo * (c_hi - c_lo) + (hi - lo) * (p - c_lo), c_hi - c_lo)

\* SmartCitiesModule.calculate_aqi with every band test written < instead of <=
SC_calculate_aqi_strict(p) ==
    IF p < 1200 THEN Trunc(50 * p, 1200)
    ELSE IF p < 3540 THEN Interpolate(50, 100, 1210, 3540, p)
    ELSE IF p < 5540 THEN Interpolate(100, 150, 3550, 5540, p)
    ELSE IF p < 15040 THEN Interpolate(150, 200, 5550, 15040, p)
    ELSE Min(300, Interpolate(200, 300, 15050, 25040, p))

\* SmartCitiesModule.calculate_aqi
SC_calculate_aqi(p) ==
    IF p <= 1200 THEN Trunc(50 * p, 1200)
    ELSE IF p <= 3540 THEN Interpolate(50, 100, 1210, 3540, p)
    ELSE IF p <= 5540 THEN Interpolate(100, 150, 3550, 5540, p)
    ELSE IF p <= 15040 THEN Interpolate(150, 200, 5550, 15040, p)
    ELSE Min(300, Interpolate(200, 300, 15050, 25040, p))

\* TravelEcoTourismModule.calculate_aqi with the first band test at 12.1
TE_calculate_aqi_drifted(p) ==
    IF p <= 1210 THEN Trunc(50 * p, 1200)
    ELSE IF p <= 3540 THEN Interpolate(50, 100, 1210, 3540, p)
    ELSE IF p <= 5540 THEN Interpolate(100, 150, 3550, 5540, p)
    ELSE IF p <= 15040 THEN Interpolate(150, 200, 5550, 15040, p)
    ELSE Min(300, Interpolate(200, 300, 15050, 25040, p))

\* TravelEcoTourismModule.calculate_aqi
TE_calculate_aqi(p) ==
    IF p <= 1200 THEN Trunc(50 * p, 1200)
    ELSE IF p <= 3540 THEN Interpolate(50, 100, 1210, 3540, p)
    ELSE IF p <= 5540 THEN Interpolate(100, 150, 3550, 5540, p)
    ELSE IF p <= 15040 THEN Interpolate(150, 200, 5550, 15040, p)
    ELSE Min(300, Interpolate(200, 300, 15050, 25040, p))

\* RealEstateUrbanPlanningModule.calculate_aqi without the min(300, ...)
RE_calculate_aqi_unclamped(p) ==
    IF p <= 1200 THEN Trunc(50 * p, 1200)
    ELSE IF p <= 3540 THEN Interpolate(50, 100, 1210, 3540, p)
    ELSE IF p <= 5540 THEN Interpolate(100, 150, 3550, 5540, p)
    ELSE IF p <= 15040 THEN Interpolate(150, 200, 5550, 15040, p)
    ELSE Interpolate(200, 300, 15050, 25040, p)

\* RealEstateUrbanPlanningModule.calculate_aqi
RE_calculate_aqi(p) ==
    IF p <= 1200 THEN Trunc(50 * p, 1200)
    ELSE IF p <= 3540 THEN Interpolate(50, 100, 1210, 3540, p)
    ELSE IF p <= 5540 THEN Interpolate(100, 150, 3550, 5540, p)
    ELSE IF p <= 15040 THEN Interpolate(150, 200, 5550, 15040, p)
    ELSE Min(300, Interpolate(200, 300, 15050, 25040, p))

----------------------------------------------------------------------------
\* Provider payloads (the value get_air_quality_data returns)

\* the air_quality fields the scoring operations read
AQFields == {"pm2_5", "o3", "no2", "so2"}

\* the reference denominators of the normalization, in ug/m3
Reference == [pm25 |-> 15, o3 |-> 100, so2 |-> 20, no2 |-> 40]

\* the air_quality field a profile's pollutant key is read from
Field(pollutant) == IF pollutant = "pm25" THEN "pm2_5" ELSE pollutant

\* a score s is held as s * ScoreScale; every reference divides 2400
ScoreScale == 4 * 100 * 600

\* largest whole multiple of the reference among the concentrations
MaxMult == 4

\* concentrations of one pollutant, in hundredths: 0, the worked example's
\* value and the whole multiples of the reference
ConcValues(pollutant, example) ==
    {0, example} \cup {100 * Reference[pollutant] * m : m \in 1..MaxMult}

Readings ==
    [pm2_5 : ConcValues("pm25", 1000), o3 : ConcValues("o3", 5000),
     no2 : ConcValues("no2", 2000), so2 : ConcValues("so2", 500)]

ZeroReading == [pm2_5 |-> 0, o3 |-> 0, no2 |-> 0, so2 |-> 0]

\* a payload: fetched is FALSE when the fetch returned None; current, location
\* and air_quality tell which sections the JSON carries; absent names the
\* air_quality fields it lacks
Payload(fetched, current, location, air_quality, absent, aq) ==
    [fetched |-> fetched, current |-> current, location |-> location,
     air_quality |-> air_quality, absent |-> absent, aq |-> aq]

FullPayloads == {Payload(TRUE, TRUE, TRUE, TRUE, {}, r) : r \in Readings}

PartialPayloads ==
    {Payload(TRUE, TRUE, TRUE, TRUE, {f}, [pm2_5 |-> 6000, o3 |-> 40000,
                                          no2 |-> 16000, so2 |-> 8000]) :
        f \in AQFields}

BrokenPayloads ==
    {Payload(FALSE, FALSE, FALSE, FALSE, {}, ZeroReading),
     Payload(TRUE, FALSE, FALSE, FALSE, {}, ZeroReading),
     Payload(TRUE, FALSE, TRUE, FALSE, {}, ZeroReading),
     Payload(TRUE, TRUE, TRUE, FALSE, {}, ZeroReading),
     Payload(TRUE, TRUE, FALSE, TRUE, {}, ZeroReading)}

AirData == FullPayloads \cup PartialPayloads \cup BrokenPayloads

\* not air_data or 'current' not in air_data
NoCurrent(air_data) == ~air_data.fetched \/ ~air_data.current

\* air_data['current'].get('air_quality', {}).get(field, 0)
Get(air_data, field) ==
    IF ~air_data.air_quality \/ field \in air_data.absent
    THEN 0 ELSE air_data.aq[field]

----------------------------------------------------------------------------
\* AgricultureModule

\* crop_sensitivity with the o3 and so2 coefficients of wheat exchanged
crop_sensitivity_swapped ==
    [wheat   |-> [o3 |-> 8,  so2 |-> 12, no2 |-> 5, pm25 |-> 10],
     rice    |-> [o3 |-> 5,  so2 |-> 3,  no2 |-> 2, pm25 |-> 4],
     corn    |-> [o3 |-> 15, so2 |-> 10, no2 |-> 7, pm25 |-> 12],
     soybean |-> [o3 |-> 18, so2 |-> 12, no2 |-> 8, pm25 |-> 14],
     cotton  |-> [o3 |-> 10, so2 |-> 6,  no2 |-> 4, pm25 |-> 8]]

\* coefficients in hundredths
crop_sensitivity ==
    [wheat   |-> [o3 |-> 12, so2 |-> 8,  no2 |-> 5, pm25 |-> 10],
     rice    |-> [o3 |-> 5,  so2 |-> 3,  no2 |-> 2, pm25 |-> 4],
     corn    |-> [o3 |-> 15, so2 |-> 10, no2 |-> 7, pm25 |-> 12],
     soybean |-> [o3 |-> 18, so2 |-> 12, no2 |-> 8, pm25 |-> 14],
     cotton  |-> [o3 |-> 10, so2 |-> 6,  no2 |-> 4, pm25 |-> 8]]

\* str.lower() on the crop keys used here
Lower(s) ==
    CASE s = "Wheat" -> "wheat"
      [] s = "Rice" -> "rice"
      [] s = "Corn" -> "corn"
      [] s = "Soybean" -> "soybean"
      [] s = "Cotton" -> "cotton"
      [] s = "Durian" -> "durian"
      [] OTHER -> s

CropTypes == {"wheat", "rice", "corn", "soybean", "cotton",
              "Wheat", "Rice", "Corn", "Soybean", "Cotton",
              "durian", "Durian"}

\* the lookup with the first profile of the table, not wheat, as the default
Sensitivity_first_default(crop_type) ==
    IF Lower(crop_type) \in DOMAIN crop_sensitivity
    THEN crop_sensitivity[Lower(crop_type)]
    ELSE crop_sensitivity["rice"]

\* self.crop_sensitivity.get(crop_type.lower(), self.crop_sensitivity['wheat'])
Sensitivity(crop_type) ==
    IF Lower(crop_type) \in DOMAIN crop_sensitivity
    THEN crop_sensitivity[Lower(crop_type)]
    ELSE crop_sensitivity["wheat"]

\* value / reference without the min(..., 3.0)
CropNormalized_unclipped(value, pollutant) ==
    value * (2400 \div Reference[pollutant])

\* min(value / reference, 3.0), times ScoreScale
CropNormalized(value, pollutant) ==
    Min(value * (2400 \div Reference[pollutant]), 3 * ScoreScale)

\* coefficient * normalized * 100, times ScoreScale
CropImpact(coefficient, value, pollutant) ==
    coefficient * CropNormalized(value, pollutant)

\* get_risk_level with every threshold test written <= instead of <
get_risk_level_inclusive(impact) ==
    IF impact <= 2 * ScoreScale THEN "Low"
    ELSE IF impact <= 5 * ScoreScale THEN "Moderate"
    ELSE IF impact <= 10 * ScoreScale THEN "High"
    ELSE "Critical"

\* get_risk_level, on an impact times ScoreScale
get_risk_level(impact) ==
    IF impact < 2 * ScoreScale THEN "Low"
    ELSE IF impact < 5 * ScoreScale THEN "Moderate"
    ELSE IF impact < 10 * ScoreScale THEN "High"
    ELSE "Critical"

\* the sum with the no2 impact left out
YieldLoss_without_no2(impacts) ==
    impacts["o3"].impact_percent + impacts["so2"].impact_percent
    + impacts["pm25"].impact_percent

\* the sum the loop accumulates in yield_loss
YieldLoss(impacts) ==
    impacts["o3"].impact_percent + impacts["so2"].impact_percent
    + impacts["no2"].impact_percent + impacts["pm25"].impact_percent

\* the total without the min(..., 50)
TotalYieldLoss_unclipped(yield_loss) == yield_loss

\* min(yield_loss, 50)
TotalYieldLoss(yield_loss) == Min(yield_loss, 50 * ScoreScale)

predict_crop_impact(air_data, crop_type) ==
    IF NoCurrent(air_data) THEN [status |-> "None"]
    ELSE
      LET sensitivity == Sensitivity(crop_type)
          pollutant_impacts ==
            [pollutant \in DOMAIN sensitivity |->
               LET value == Get(air_data, Field(pollutant))
                   impact == CropImpact(sensitivity[pollutant], value, pollutant)
               IN [value |-> value, impact_percent |-> impact,
                   risk_level |-> get_risk_level(impact)]]
      IN IF ~air_data.location THEN [status |-> "KeyError"]
         ELSE [status |-> "ok",
               total_yield_loss |-> TotalYieldLoss(YieldLoss(pollutant_impacts)),
               pollutant_impacts |-> pollutant_impacts]

----------------------------------------------------------------------------
\* HealthcareModule

\* coefficients in tenths
risk_profiles ==
    [child         |-> [pm25 |-> 15, o3 |-> 13, no2 |-> 12, so2 |-> 14],
     adult         |-> [pm25 |-> 10, o3 |-> 10, no2 |-> 10, so2 |-> 10],
     elderly       |-> [pm25 |-> 18, o3 |-> 16, no2 |-> 14, so2 |-> 17],
     asthma        |-> [pm25 |-> 22, o3 |-> 20, no2 |-> 18, so2 |-> 21],
     heart_disease |-> [pm25 |-> 20, o3 |-> 17, no2 |-> 15, so2 |-> 18]]

AgeGroups == {"child", "adult", "elderly", "senior", "asthma"}

ConditionNames == {"asthma", "heart_disease", "diabetes"}

\* the conditions argument: None (given = FALSE) or a list of names
Conditions == {[given |-> FALSE, items |-> {}]}
              \cup [given : {TRUE}, items : SUBSET ConditionNames]

\* conditions and name in conditions
Flagged(conditions, name) ==
    conditions.given /\ conditions.items # {} /\ name \in conditions.items

\* the profile chosen at lines 326-328
Profile(age_group, conditions) ==
    IF Flagged(conditions, "asthma") THEN risk_profiles["asthma"]
    ELSE IF Flagged(conditions, "heart_disease") THEN risk_profiles["heart_disease"]
    ELSE IF age_group \in DOMAIN risk_profiles THEN risk_profiles[age_group]
    ELSE risk_profiles["adult"]

\* value / reference, times ScoreScale
HealthNormalized(value, pollutant) ==
    value * (2400 \div Reference[pollutant])

\* min(normalized * profile[pollutant] * 10, 10), times ScoreScale
RiskScore(coefficient, value, pollutant) ==
    Min(HealthNormalized(value, pollutant) * coefficient, 10 * ScoreScale)

\* get_health_risk_level, on a score times ScoreScale
get_health_risk_level(score) ==
    IF score < 2 * ScoreScale THEN "Low"
    ELSE IF score < 4 * ScoreScale THEN "Moderate"
    ELSE IF score < 6 * ScoreScale THEN "High"
    ELSE IF score < 8 * ScoreScale THEN "Very High"
    ELSE "Hazardous"

\* min(total_risk_score / 4, 10); every risk score is a multiple of 4
OverallRisk(total_risk_score) ==
    Min(total_risk_score \div 4, 10 * ScoreScale)

\* the advice of the score's branch with the branch tests one step late
TierAdvice_late(risk_score) ==
    IF risk_score < 4 * ScoreScale
    THEN <<"Air quality is good", "Continue regular exercise">>
    ELSE IF risk_score < 6 * ScoreScale
    THEN <<"Moderate air pollution", "Consider indoor exercise">>
    ELSE IF risk_score < 8 * ScoreScale
    THEN <<"Unhealthy air quality", "Use air purifiers", "Wear N95 masks">>
    ELSE <<"Hazardous air quality", "Stay indoors", "Seek medical attention">>

\* the advice of the score's branch, each sentence by its opening words
TierAdvice(risk_score) ==
    IF risk_score < 2 * ScoreScale
    THEN <<"Air quality is good", "Continue regular exercise">>
    ELSE IF risk_score < 4 * ScoreScale
    THEN <<"Moderate air pollution", "Consider indoor exercise">>
    ELSE IF risk_score < 6 * ScoreScale
    THEN <<"Unhealthy air quality", "Use air purifiers", "Wear N95 masks">>
    ELSE <<"Hazardous air quality", "Stay indoors", "Seek medical attention">>

\* the sentence appended for the age group
AgeAdvice(age_group) ==
    IF age_group = "child" THEN <<"Keep children indoors">>
    ELSE IF age_group = "elderly" THEN <<"Elderly individuals">>
    ELSE <<>>

\* the sentences appended for the conditions
ConditionAdvice(conditions) ==
    (IF Flagged(conditions, "asthma") THEN <<"Keep rescue inhalers">> ELSE <<>>)
    \o (IF Flagged(conditions, "heart_disease") THEN <<"Monitor heart rate">>
        ELSE <<>>)

generate_health_recommendations(risk_score, age_group, conditions) ==
    TierAdvice(risk_score) \o AgeAdvice(age_group) \o ConditionAdvice(conditions)

assess_health_risk(air_data, age_group, conditions) ==
    IF NoCurrent(air_data) THEN [status |-> "None"]
    ELSE
      LET profile == Profile(age_group, conditions)
          health_risks ==
            [pollutant \in {"pm25", "o3", "no2", "so2"} |->
               LET value == Get(air_data, Field(pollutant))
                   risk_score == RiskScore(profile[pollutant], value, pollutant)
               IN [value |-> value, risk_score |-> risk_score,
                   risk_level |-> get_health_risk_level(risk_score)]]
          total_risk_score ==
            health_risks["pm25"].risk_score + health_risks["o3"].risk_score
            + health_risks["no2"].risk_score + health_risks["so2"].risk_score
          overall_risk == OverallRisk(total_risk_score)
      IN [status |-> "ok",
          profile |-> profile,
          overall_risk_score |-> overall_risk,
          overall_risk_level |-> get_health_risk_level(overall_risk),
          pollutant_risks |-> health_risks,
          recommendations |->
            generate_health_recommendations(overall_risk, age_group, conditions)]

----------------------------------------------------------------------------
\* RealEstateUrbanPlanningModule

\* PM2.5 values of the site readings: every quarter ug/m3 up to MaxPM
SitePayloads ==
    {Payload(TRUE, TRUE, TRUE, TRUE, {}, [ZeroReading EXCEPT !.pm2_5 = p]) :
        p \in {q \in PMGrid : q % 25 = 0}}

\* max(0, 100 - (aqi / 3)), times 3
SuitabilityScore(aqi) == Max(0, 300 - aqi)

\* the label with the thresholds written >= instead of >
SuitabilityLevel_inclusive(score) ==
    IF score >= 240 THEN "High" ELSE IF score >= 150 THEN "Moderate" ELSE "Low"

\* the label, on a score times 3
SuitabilityLevel(score) ==
    IF score > 240 THEN "High" ELSE IF score > 150 THEN "Moderate" ELSE "Low"

assess_site_suitability(air_data) ==
    IF NoCurrent(air_data) THEN [status |-> "None"]
    ELSE
      LET pm25 == Get(air_data, "pm2_5")
          aqi == RE_calculate_aqi(pm25)
          suitability_score == SuitabilityScore(aqi)
      IN IF ~air_data.location THEN [status |-> "KeyError"]
         ELSE [status |-> "ok", aqi |-> aqi, pm25 |-> pm25,
               suitability_score |-> suitability_score,
               suitability_level |-> SuitabilityLevel(suitability_score)]

----------------------------------------------------------------------------
\* TravelEcoTourismModule

\* the payloads the two fetches of a route return: PM2.5 every RouteStep
\* hundredths, a payload without pm2_5, and the payloads lacking a section
RouteStep == 500

RoutePayloads ==
    {Payload(TRUE, TRUE, TRUE, TRUE, {}, [ZeroReading EXCEPT !.pm2_5 = p]) :
        p \in {q \in PMGrid : q % RouteStep = 0}}
    \cup {Payload(TRUE, TRUE, TRUE, TRUE, {"pm2_5"}, ZeroReading)}
    \cup BrokenPayloads

\* data['current']['air_quality'] raises KeyError
NoAirQuality(data) == ~data.current \/ ~data.air_quality

\* the label, on a route score times 2
RouteStatus(route_score) ==
    IF route_score < 2 * 50 THEN "Low Pollution"
    ELSE IF route_score < 2 * 100 THEN "Moderate Pollution"
    ELSE "High Pollution"

\* the route score taken from the start city alone
RouteScore_start_only(start_aqi, end_aqi) == start_aqi + start_aqi

\* (start_aqi + end_aqi) / 2, times 2
RouteScore(start_aqi, end_aqi) == start_aqi + end_aqi

\* start_data and end_data are what the two get_air_quality_data calls
\* returned; route_score is held times 2
optimize_low_pollution_route(start_data, end_data) ==
    IF ~start_data.fetched \/ ~end_data.fetched THEN [status |-> "None"]
    ELSE IF NoAirQuality(start_data) \/ NoAirQuality(end_data)
    THEN [status |-> "KeyError"]
    ELSE
      LET start_aqi == TE_calculate_aqi(Get(start_data, "pm2_5"))
          end_aqi == TE_calculate_aqi(Get(end_data, "pm2_5"))
          route_score == RouteScore(start_aqi, end_aqi)
      IN IF ~start_data.location \/ ~end_data.location
         THEN [status |-> "KeyError"]
         ELSE [status |-> "ok", start_aqi |-> start_aqi, end_aqi |-> end_aqi,
               route_score |-> route_score,
               route_status |-> RouteStatus(route_score)]

----------------------------------------------------------------------------
\* Calls of the AQI converter

AqiOps == {"SmartCities.calculate_aqi", "Travel.calculate_aqi",
           "RealEstate.calculate_aqi"}

NoCall == [pm25 |-> -1, aqi |-> -1]
NoResult == [aqi |-> -1]
\* no page is being rendered
NoView == [page |-> "none"]
\* no HTTP request was issued yet, in the first call of the session
NoNet == [calls |-> 1, requests |-> 0, total |-> 0, outcome |-> "none"]

AqiRequests == [op : AqiOps, pm25 : PMGrid]

InitAqi ==
    /\ req \in AqiRequests
    /\ pc = "ready"
    /\ res = NoResult
    /\ prev = NoCall
    /\ view = NoView
    /\ net = NoNet

SC_CalculateAqi ==
    /\ pc = "ready"
    /\ req.op = "SmartCities.calculate_aqi"
    /\ res' = [aqi |-> SC_calculate_aqi(req.pm25)]
    /\ pc' = "done"
    /\ UNCHANGED <<req, prev, view, net>>

TE_CalculateAqi ==
    /\ pc = "ready"
    /\ req.op = "Travel.calculate_aqi"
    /\ res' = [aqi |-> TE_calculate_aqi(req.pm25)]
    /\ pc' = "done"
    /\ UNCHANGED <<req, prev, view, net>>

RE_CalculateAqi ==
    /\ pc = "ready"
    /\ req.op = "RealEstate.calculate_aqi"
    /\ res' = [aqi |-> RE_calculate_aqi(req.pm25)]
    /\ pc' = "done"
    /\ UNCHANGED <<req, prev, view, net>>

\* the same converter is called again, with an input no smaller than before
NextAqiCall ==
    /\ pc = "done"
    /\ req.op \in AqiOps
    /\ prev = NoCall
    /\ \E d \in 1..MaxGap :
         /\ req.pm25 + d <= MaxPM
         /\ req' = [req EXCEPT !.pm25 = req.pm25 + d]
    /\ prev' = [pm25 |-> req.pm25, aqi |-> res.aqi]
    /\ res' = NoResult
    /\ pc' = "ready"
    /\ UNCHANGED <<view, net>>

NextAqi == SC_CalculateAqi \/ TE_CalculateAqi \/ RE_CalculateAqi \/ NextAqiCall

SpecAqi == InitAqi /\ [][NextAqi]_vars

----------------------------------------------------------------------------
\* Calls of the scoring operations and of the label ladders

\* largest score handed to a label ladder, in tenths
MaxScoreTenths == 120

LadderScores == {k * (ScoreScale \div 10) : k \in 0..MaxScoreTenths}

CropRequests ==
    [op : {"predict_crop_impact"}, air_data : AirData, crop_type : CropTypes]

HealthRequests ==
    [op : {"assess_health_risk"}, air_data : AirData,
     age_group : AgeGroups, conditions : Conditions]

SiteRequests ==
    [op : {"assess_site_suitability"},
     air_data : SitePayloads \cup PartialPayloads \cup BrokenPayloads]

LadderRequests ==
    [op : {"get_risk_level", "get_health_risk_level"}, score : LadderScores]

AdviceRequests ==
    [op : {"generate_health_recommendations"}, risk_score : LadderScores,
     age_group : AgeGroups, conditions : Conditions]

RouteRequests ==
    [op : {"optimize_low_pollution_route"},
     start_data : RoutePayloads, end_data : RoutePayloads]

InitScore ==
    /\ req \in CropRequests \cup HealthRequests \cup SiteRequests
                \cup LadderRequests \cup RouteRequests \cup AdviceRequests
    /\ pc = "ready"
    /\ res = NoResult
    /\ prev = NoCall
    /\ view = NoView
    /\ net = NoNet

PredictCropImpact ==
    /\ pc = "ready"
    /\ req.op = "predict_crop_impact"
    /\ res' = predict_crop_impact(req.air_data, req.crop_type)
    /\ pc' = "done"
    /\ UNCHANGED <<req, prev, view, net>>

AssessHealthRisk ==
    /\ pc = "ready"
    /\ req.op = "assess_health_risk"
    /\ res' = assess_health_risk(req.air_data, req.age_group, req.conditions)
    /\ pc' = "done"
    /\ UNCHANGED <<req, prev, view, net>>

AssessSiteSuitability ==
    /\ pc = "ready"
    /\ req.op = "assess_site_suitability"
    /\ res' = assess_site_suitability(req.air_data)
    /\ pc' = "done"
    /\ UNCHANGED <<req, prev, view, net>>

GetRiskLevel ==
    /\ pc = "ready"
    /\ req.op = "get_risk_level"
    /\ res' = [label |-> get_risk_level(req.score)]
    /\ pc' = "done"
    /\ UNCHANGED <<req, prev, view, net>>

GetHealthRiskLevel ==
    /\ pc = "ready"
    /\ req.op = "get_health_risk_level"
    /\ res' = [label |-> get_health_risk_level(req.score)]
    /\ pc' = "done"
    /\ UNCHANGED <<req, prev, view, net>>

OptimizeLowPollutionRoute ==
    /\ pc = "ready"
    /\ req.op = "optimize_low_pollution_route"
    /\ res' = optimize_low_pollution_route(req.start_data, req.end_data)
    /\ pc' = "done"
    /\ UNCHANGED <<req, prev, view, net>>

GenerateHealthRecommendations ==
    /\ pc = "ready"
    /\ req.op = "generate_health_recommendations"
    /\ res' = [recommendations |->
                 generate_health_recommendations(req.risk_score, req.age_group,
                                                 req.conditions)]
    /\ pc' = "done"
    /\ UNCHANGED <<req, prev, view, net>>

NextScore ==
    \/ PredictCropImpact
    \/ AssessHealthRisk
    \/ AssessSiteSuitability
    \/ GetRiskLevel
    \/ GetHealthRiskLevel
    \/ OptimizeLowPollutionRoute
    \/ GenerateHealthRecommendations

SpecScore == InitScore /\ [][NextScore]_vars

Done(op) == pc = "done" /\ req.op = op

----------------------------------------------------------------------------
\* Forecast payloads (the value get_weather_forecast returns)

\* the pollutants list of process_forecast_data
Pollutants == {"pm2_5", "pm10", "o3", "no2", "so2", "co"}

\* largest level of the hourly concentrations
MaxHourLevel == 2
\* most hours in a forecast day
MaxHours == 2
\* most days in a forecast payload
MaxDays == 2

\* an hourly object: air_quality tells whether it carries the air_quality
\* object, absent names the pollutant fields that object lacks
Hour(air_quality, absent, aq) ==
    [air_quality |-> air_quality, absent |-> absent, aq |-> aq]

\* the hourly concentrations at level k, in hundredths
HourLevel(k) ==
    [pm2_5 |-> 1000 * k, pm10 |-> 2000 * k, o3 |-> 5000 * k,
     no2 |-> 2000 * k, so2 |-> 500 * k, co |-> 30000 * k]

HourKinds ==
    {Hour(TRUE, {}, HourLevel(k)) : k \in 0..MaxHourLevel}
    \cup {Hour(FALSE, Pollutants, HourLevel(0)),
          Hour(TRUE, Pollutants, HourLevel(0)),
          Hour(TRUE, {"co"}, [HourLevel(1) EXCEPT !.pm2_5 = 0])}

\* the sequences over S of length at most n
SeqsUpTo(S, n) == UNION {[1..k -> S] : k \in 0..n}

\* a forecast day without its date: hour_key tells whether it has an 'hour' list
DayBodies ==
    {[hour_key |-> FALSE, hours |-> <<>>]}
    \cup {[hour_key |-> TRUE, hours |-> h] : h \in SeqsUpTo(HourKinds, MaxHours)}

\* the provider lists the days in date order: day i carries date i
ForecastDays(bodies) ==
    [i \in 1..Len(bodies) |->
        [date |-> i, hour_key |-> bodies[i].hour_key, hours |-> bodies[i].hours]]

\* a forecast payload: fetched is FALSE when the fetch returned None, forecast
\* tells whether the JSON carries the 'forecast' section
Forecast(fetched, forecast, forecastday) ==
    [fetched |-> fetched, forecast |-> forecast, forecastday |-> forecastday]

NoForecastFetched == Forecast(FALSE, FALSE, <<>>)
NoForecastSection == Forecast(TRUE, FALSE, <<>>)

Forecasts ==
    {NoForecastFetched, NoForecastSection}
    \cup {Forecast(TRUE, TRUE, ForecastDays(b)) : b \in SeqsUpTo(DayBodies, MaxDays)}

----------------------------------------------------------------------------
\* PollutionAnalyzer.process_forecast_data

\* the day list without the [:days] slice
FirstDays_unsliced(forecastday, days) == forecastday

\* forecast_data['forecast']['forecastday'][:days], days >= 0
FirstDays(forecastday, days) == SubSeq(forecastday, 1, Min(days, Len(forecastday)))

\* day.get('hour', [])
HoursOf(day) == IF day.hour_key THEN day.hours ELSE <<>>

\* the filter of the comprehension: hour['air_quality'].get(pollutant) is truthy
Qualifies(hour, pollutant) ==
    pollutant \notin hour.absent /\ hour.aq[pollutant] # 0

\* values = [hour['air_quality'].get(pollutant, 0) for hour in ... if ...]
Values(day, pollutant) ==
    LET kept == SelectSeq(HoursOf(day), LAMBDA hour : Qualifies(hour, pollutant))
    IN [i \in 1..Len(kept) |-> kept[i].aq[pollutant]]

RECURSIVE SumSeq(_)
SumSeq(values) ==
    IF values = <<>> THEN 0 ELSE Head(values) + SumSeq(Tail(values))

\* np.mean(values) if values else 0, as the fraction num / den
DailyMean(values) ==
    IF values = <<>> THEN [num |-> 0, den |-> 1]
    ELSE [num |-> SumSeq(values), den |-> Len(values)]

\* hour['air_quality'] raises KeyError on an hour without the object
RaisesKeyError(days) ==
    \E i \in 1..Len(days) :
        \E j \in 1..Len(HoursOf(days[i])) : ~HoursOf(days[i])[j].air_quality

process_forecast_data(forecast_data, days) ==
    IF ~forecast_data.fetched \/ ~forecast_data.forecast THEN [status |-> "None"]
    ELSE
      LET first == FirstDays(forecast_data.forecastday, days)
      IN IF RaisesKeyError(first) THEN [status |-> "KeyError"]
         ELSE [status |-> "ok",
               rows |-> [i \in 1..Len(first) |->
                           [date |-> first[i].date,
                            avg |-> [pollutant \in Pollutants |->
                                       DailyMean(Values(first[i], pollutant))]]]]

ForecastRequests ==
    [op : {"process_forecast_data"}, forecast_data : Forecasts,
     days : 0..(MaxDays + 1)]

InitForecast ==
    /\ req \in ForecastRequests
    /\ pc = "ready"
    /\ res = NoResult
    /\ prev = NoCall
    /\ view = NoView
    /\ net = NoNet

ProcessForecastData ==
    /\ pc = "ready"
    /\ req.op = "process_forecast_data"
    /\ res' = process_forecast_data(req.forecast_data, req.days)
    /\ pc' = "done"
    /\ UNCHANGED <<req, prev, view, net>>

NextForecast == ProcessForecastData

SpecForecast == InitForecast /\ [][NextForecast]_vars

\* every scoring operation, the forecast aggregator included
InitOps == InitScore \/ InitForecast
NextOps == NextScore \/ NextForecast
SpecOps == InitOps /\ [][NextOps]_vars

----------------------------------------------------------------------------
\* PollutionAnalyzer.analyze_with_ai

\* what the narrative provider does with the request
NarrativeOutcomes == {"ok", "network_error", "http_error", "malformed_body"}

\* the text of the except branch, up to the exception's message
Placeholder == "AI analysis unavailable"

\* analyze_with_ai without the try/except: the exception leaves the call
analyze_with_ai_uncaught(weather_api_key, outcome) ==
    IF ~weather_api_key THEN [status |-> "None"]
    ELSE IF outcome = "ok" THEN [status |-> "ok", text |-> "narrative"]
    ELSE [status |-> "raise"]

\* weather_api_key is FALSE for an empty key (validate_api_keys fails; the
\* narrative key always has its default); requests.post raises on a network
\* error, raise_for_status on an HTTP error status, and the indexing of
\* response.json() on a malformed body: every one is caught by the except
analyze_with_ai(weather_api_key, outcome) ==
    IF ~weather_api_key THEN [status |-> "None"]
    ELSE IF outcome = "ok" THEN [status |-> "ok", text |-> "narrative"]
    ELSE [status |-> "ok", text |-> Placeholder]

----------------------------------------------------------------------------
\* The provider calls of PollutionAnalyzer, request by request

DEFAULT_GROQ_API_KEY == "Your API"

\* the keys typed into the sidebar: empty or not
KeyInputs == {"", "key"}

\* __init__ keeping the narrative key as typed
StoredGroqKey_as_typed(groq_api_key) == groq_api_key

\* self.groq_api_key = groq_api_key if groq_api_key else DEFAULT_GROQ_API_KEY
StoredGroqKey(groq_api_key) ==
    IF groq_api_key # "" THEN groq_api_key ELSE DEFAULT_GROQ_API_KEY

\* validate_api_keys on the analyzer built from the two typed keys
validate_api_keys(weather_api_key, groq_api_key) ==
    IF weather_api_key = "" THEN FALSE
    ELSE IF StoredGroqKey(groq_api_key) = "" THEN FALSE
    ELSE TRUE

ProviderOps == {"get_air_quality_data", "get_weather_forecast",
                "analyze_with_ai"}

\* most calls in a session
MaxCalls == 3

\* an except branch that sends the request once more
AfterException_retry(requests) == IF requests < 2 THEN "sending" ELSE "done"

\* the except branch returns: the call is over
AfterException(requests) == "done"

\* what the call returns for the outcome of its request
Response(op, outcome) ==
    IF op = "analyze_with_ai" THEN analyze_with_ai(TRUE, outcome)
    ELSE IF outcome = "ok" THEN [status |-> "ok"]
    ELSE [status |-> "None"]

ProviderRequests ==
    [op : ProviderOps, weather_api_key : KeyInputs, groq_api_key : KeyInputs]

InitProvider ==
    /\ req \in ProviderRequests
    /\ pc = "ready"
    /\ res = NoResult
    /\ prev = NoCall
    /\ view = NoView
    /\ net = NoNet

\* if not self.validate_api_keys(): return None
Validate ==
    /\ pc = "ready"
    /\ req.op \in ProviderOps
    /\ IF validate_api_keys(req.weather_api_key, req.groq_api_key)
       THEN /\ pc' = "sending"
            /\ res' = res
       ELSE /\ pc' = "done"
            /\ res' = [status |-> "None"]
    /\ UNCHANGED <<req, prev, view, net>>

\* requests.get / requests.post: one HTTP request leaves
Send ==
    /\ pc = "sending"
    /\ \E outcome \in NarrativeOutcomes :
         net' = [net EXCEPT !.requests = @ + 1, !.total = @ + 1,
                            !.outcome = outcome]
    /\ pc' = "responded"
    /\ UNCHANGED <<req, res, prev, view>>

\* raise_for_status, response.json() and the return, or the except branch
Receive ==
    /\ pc = "responded"
    /\ IF net.outcome = "ok"
       THEN /\ pc' = "done"
            /\ res' = Response(req.op, net.outcome)
       ELSE /\ pc' = AfterException(net.requests)
            /\ res' = IF AfterException(net.requests) = "done"
                      THEN Response(req.op, net.outcome) ELSE res
    /\ UNCHANGED <<req, prev, view, net>>

\* the session goes on with another call on the same analyzer
NextProviderCall ==
    /\ pc = "done"
    /\ req.op \in ProviderOps
    /\ net.calls < MaxCalls
    /\ \E op \in ProviderOps : req' = [req EXCEPT !.op = op]
    /\ res' = NoResult
    /\ net' = [net EXCEPT !.calls = @ + 1, !.requests = 0, !.outcome = "none"]
    /\ pc' = "ready"
    /\ UNCHANGED <<prev, view>>

NextProvider == Validate \/ Send \/ Receive \/ NextProviderCall

SpecProvider == InitProvider /\ [][NextProvider]_vars

----------------------------------------------------------------------------
\* The page flows (what a press of the page's button runs)

ModulePages == {"agriculture_module", "smart_cities_module",
                "healthcare_module", "travel_eco_tourism_module",
                "real_estate_urban_planning_module"}

Pages == ModulePages \cup {"integrated_dashboard"}

\* a complete payload
OkPayload ==
    Payload(TRUE, TRUE, TRUE, TRUE, {},
            [pm2_5 |-> 1000, o3 |-> 5000, no2 |-> 2000, so2 |-> 500])
FailedPayload == Payload(FALSE, FALSE, FALSE, FALSE, {}, ZeroReading)
NoCurrentPayload == Payload(TRUE, FALSE, FALSE, FALSE, {}, ZeroReading)

\* what one get_air_quality_data call returns: with an empty key always None
FetchOutcomes(weather_api_key) ==
    IF weather_api_key THEN {OkPayload, FailedPayload, NoCurrentPayload}
    ELSE {FailedPayload}

GoodForecast ==
    Forecast(TRUE, TRUE,
             ForecastDays(<<[hour_key |-> TRUE,
                             hours |-> <<Hour(TRUE, {}, HourLevel(1))>>]>>))

\* what one get_weather_forecast call returns
ForecastOutcomes(weather_api_key) ==
    IF weather_api_key THEN {GoodForecast, NoForecastFetched, NoForecastSection}
    ELSE {NoForecastFetched}

\* forecast_df = process_forecast_data(forecast_data, 14) if forecast_data
\* else None
ForecastFrame(forecast_data) ==
    IF forecast_data.fetched THEN process_forecast_data(forecast_data, 14)
    ELSE [status |-> "None"]

\* comparison_data of smart_cities_module for one selected city: the empty
\* list is "None"
ComparisonData(data) ==
    IF NoCurrent(data) THEN [status |-> "None"]
    ELSE IF ~data.air_quality THEN [status |-> "KeyError"]
    ELSE [status |-> "ok", pm2_5 |-> Get(data, "pm2_5"),
          aqi |-> SC_calculate_aqi(Get(data, "pm2_5"))]

\* the entry of a city in the scan: "skip", "raise" or "clean"
CleanEntry(air_data) ==
    IF NoCurrent(air_data) THEN "skip"
    ELSE IF ~air_data.air_quality THEN "raise"
    ELSE IF TE_calculate_aqi(Get(air_data, "pm2_5")) >= 50 THEN "skip"
    ELSE IF ~air_data.location THEN "raise"
    ELSE "clean"

\* cities_data[k] is what get_air_quality_data returned for the k-th city;
\* a destination is recorded with the city's place in the list
identify_clean_air_destinations(cities_data) ==
    IF \E k \in 1..Len(cities_data) : CleanEntry(cities_data[k]) = "raise"
    THEN [status |-> "KeyError"]
    ELSE LET kept == SelectSeq([k \in 1..Len(cities_data) |-> k],
                               LAMBDA k : CleanEntry(cities_data[k]) = "clean")
         IN [status |-> "ok",
             destinations |->
               [n \in 1..Len(kept) |->
                  [city |-> kept[n],
                   aqi |-> TE_calculate_aqi(Get(cities_data[kept[n]], "pm2_5"))]]]

\* the cities of a scan
MaxCities == 3

\* what the fetch of a scanned city may return
CityPayloads ==
    {Payload(TRUE, TRUE, TRUE, TRUE, {}, [ZeroReading EXCEPT !.pm2_5 = p]) :
        p \in {500, 1200, 1205, 3000}}
    \cup {Payload(TRUE, TRUE, TRUE, TRUE, {"pm2_5"}, ZeroReading)}
    \cup BrokenPayloads

DestinationRequests ==
    [op : {"identify_clean_air_destinations"},
     cities_data : SeqsUpTo(CityPayloads, MaxCities)]

InitDestinations ==
    /\ req \in DestinationRequests
    /\ pc = "ready"
    /\ res = NoResult
    /\ prev = NoCall
    /\ view = NoView
    /\ net = NoNet

IdentifyCleanAirDestinations ==
    /\ pc = "ready"
    /\ req.op = "identify_clean_air_destinations"
    /\ res' = identify_clean_air_destinations(req.cities_data)
    /\ pc' = "done"
    /\ UNCHANGED <<req, prev, view, net>>

NextDestinations == IdentifyCleanAirDestinations

SpecDestinations == InitDestinations /\ [][NextDestinations]_vars

\* the scoring call a module page makes on the payloads its fetches returned
ModuleScore(page, data, end_data) ==
    CASE page = "agriculture_module" -> predict_crop_impact(data, "Wheat")
      [] page = "smart_cities_module" -> ComparisonData(data)
      [] page = "healthcare_module" ->
           assess_health_risk(data, "adult", [given |-> TRUE, items |-> {}])
      [] page = "travel_eco_tourism_module" ->
           optimize_low_pollution_route(data, end_data)
      [] page = "real_estate_urban_planning_module" ->
           assess_site_suitability(data)

\* the rows of the integrated table
CellCount == 7
AqiCell == 3

\* the scoring call behind cell i of the integrated table
CellCall(i, data, end_data) ==
    CASE i = 1 -> predict_crop_impact(data, "wheat")
      [] i = 2 -> predict_crop_impact(data, "rice")
      [] i = 4 -> assess_health_risk(data, "adult", [given |-> FALSE, items |-> {}])
      [] i = 5 -> assess_health_risk(data, "elderly", [given |-> FALSE, items |-> {}])
      [] i = 6 -> optimize_low_pollution_route(data, end_data)
      [] i = 7 -> assess_site_suitability(data)

\* the key the cell reads from the result
CellValue(i, result) ==
    CASE i \in {1, 2} -> result.total_yield_loss
      [] i \in {4, 5} -> result.overall_risk_score
      [] i = 6 -> result.route_score
      [] i = 7 -> result.suitability_score

NotAvailable == [shown |-> "N/A"]
Shown(value) == [shown |-> "value", value |-> value]
\* the entry's expression raised an exception
Raised == [shown |-> "raise"]

\* `X[...] if X else 'N/A'` with X a scoring call: the test calls it, and
\* when truthy the value calls it again
Cell(i, test, value) ==
    IF test.status = "KeyError" THEN Raised
    ELSE IF test.status = "None" THEN NotAvailable
    ELSE IF value.status = "ok" THEN Shown(CellValue(i, value))
    ELSE Raised

\* nothing of the page is displayed yet
BlankView(page) ==
    [page |-> page, air_data |-> FailedPayload,
     forecast |-> [fetched |-> FALSE, df |-> "None"],
     cells |-> <<>>, table |-> FALSE, scores |-> NoResult,
     overview |-> FALSE, narrative |-> "none", ai |-> "none"]

PageRequests == [op : {"page"}, page : Pages, weather_api_key : BOOLEAN]

InitFlow ==
    /\ req \in PageRequests
    /\ pc = "button"
    /\ res = NoResult
    /\ prev = NoCall
    /\ view = BlankView(req.page)
    /\ net = NoNet

\* a module page: the scoring call and the forecast fetch
FlowScore ==
    /\ pc = "button"
    /\ req.page \in ModulePages
    /\ \E data, end_data \in FetchOutcomes(req.weather_api_key) :
       \E forecast_data \in ForecastOutcomes(req.weather_api_key) :
         LET result == ModuleScore(req.page, data, end_data)
             df == ForecastFrame(forecast_data)
         IN /\ res' = result
            /\ view' = [view EXCEPT !.air_data = data,
                          !.forecast = [fetched |-> forecast_data.fetched,
                                        df |-> df.status]]
            /\ pc' = IF "KeyError" \in {result.status, df.status}
                     THEN "crashed" ELSE "scored"
    /\ UNCHANGED <<req, prev, net>>

\* a module page: the table of triggered values; travel_eco_tourism_module
\* shows its table, with 'N/A', and goes on without a route
FlowDisplay ==
    /\ pc = "scored"
    /\ req.page \in ModulePages
    /\ \E data \in FetchOutcomes(req.weather_api_key) :
         IF req.page = "travel_eco_tourism_module"
         THEN /\ view' = [view EXCEPT !.table = TRUE, !.scores = res]
              /\ pc' = IF identify_clean_air_destinations(<<data>>).status = "ok"
                       THEN "displayed" ELSE "crashed"
         ELSE IF req.page = "smart_cities_module"
         THEN /\ view' = [view EXCEPT !.table = TRUE, !.scores = res]
              /\ pc' = IF res.status = "ok" THEN "displayed" ELSE "done"
         ELSE IF res.status = "ok"
         THEN /\ view' = [view EXCEPT !.table = TRUE, !.scores = res]
              /\ pc' = "displayed"
         ELSE /\ view' = view
              /\ pc' = "done"
    /\ UNCHANGED <<req, res, prev, net>>

\* integrated_dashboard: the page's own fetches, lines 1219-1231
DashFetch ==
    /\ pc = "button"
    /\ req.page = "integrated_dashboard"
    /\ \E data \in FetchOutcomes(req.weather_api_key) :
       \E forecast_data \in ForecastOutcomes(req.weather_api_key) :
         LET df == ForecastFrame(forecast_data)
         IN /\ view' = [view EXCEPT !.air_data = data,
                          !.forecast = [fetched |-> forecast_data.fetched,
                                        df |-> df.status]]
            /\ pc' = IF df.status = "KeyError" THEN "crashed"
                     ELSE IF ~data.fetched THEN "done"
                     ELSE IF ~data.current \/ ~data.location THEN "crashed"
                     ELSE "cell"
    /\ UNCHANGED <<req, res, prev, net>>

\* integrated_dashboard: the next entry of triggered_values
DashCell ==
    /\ pc = "cell"
    /\ Len(view.cells) < CellCount
    /\ LET i == Len(view.cells) + 1
       IN IF i = AqiCell
          THEN /\ view' = [view EXCEPT !.cells =
                             Append(@, Shown(SC_calculate_aqi(
                                                Get(view.air_data, "pm2_5"))))]
               /\ pc' = "cell"
               /\ res' = res
          ELSE \E d1, e1, d2, e2 \in FetchOutcomes(req.weather_api_key) :
                 LET test == CellCall(i, d1, e1)
                     value == CellCall(i, d2, e2)
                     cell == Cell(i, test, value)
                 IN /\ res' = test
                    /\ IF cell = Raised
                       THEN /\ pc' = "crashed"
                            /\ view' = view
                       ELSE /\ pc' = "cell"
                            /\ view' = [view EXCEPT !.cells = Append(@, cell)]
    /\ UNCHANGED <<req, prev, net>>

\* integrated_dashboard: st.dataframe(df_triggered)
DashTable ==
    /\ pc = "cell"
    /\ Len(view.cells) = CellCount
    /\ view' = [view EXCEPT !.table = TRUE, !.scores = view.cells]
    /\ pc' = "overview"
    /\ UNCHANGED <<req, res, prev, net>>

\* integrated_dashboard: the overview metrics and the forecast table
DashOverview ==
    /\ pc = "overview"
    /\ view' = [view EXCEPT !.overview = TRUE]
    /\ pc' = "displayed"
    /\ UNCHANGED <<req, res, prev, net>>

\* forecast_df[:forecast_days] if forecast_data is not None else None, the
\* argument real_estate_urban_planning_module builds before the call
SliceRaises ==
    /\ req.page = "real_estate_urban_planning_module"
    /\ view.forecast.fetched
    /\ view.forecast.df = "None"

\* every page: the narrative call and st.markdown of what it returns;
\* view.narrative records the outcome of the request when one was made
FlowNarrative ==
    /\ pc = "displayed"
    /\ IF SliceRaises
       THEN /\ pc' = "crashed"
            /\ view' = view
       ELSE \E outcome \in NarrativeOutcomes :
              LET ai == analyze_with_ai(req.weather_api_key, outcome)
              IN IF ai.status = "raise"
                 THEN /\ pc' = "crashed"
                      /\ view' = [view EXCEPT !.narrative = outcome]
                 ELSE IF ai.status = "None"
                 THEN /\ pc' = "done"
                      /\ view' = [view EXCEPT !.ai = "None"]
                 ELSE /\ pc' = "done"
                      /\ view' = [view EXCEPT !.narrative = outcome,
                                    !.ai = ai.text]
    /\ UNCHANGED <<req, res, prev, net>>

NextFlow ==
    \/ FlowScore
    \/ FlowDisplay
    \/ DashFetch
    \/ DashCell
    \/ DashTable
    \/ DashOverview
    \/ FlowNarrative

SpecFlow == InitFlow /\ [][NextFlow]_vars

----------------------------------------------------------------------------
\* SmartCitiesModule.predict_pm25 (PM2.5 held in tenths of ug/m3)

\* the weather inputs: temp_c = 5k, humidity = 10k, wind_kph = 5k
MaxTempK == 70
MaxHumK == 16
MaxWindK == 4

Temperatures == {5 * k : k \in -2..MaxTempK}
Humidities == {10 * k : k \in -MaxHumK..MaxHumK}
Winds == {5 * k : k \in 0..MaxWindK}

\* max(0, (temp_c - 25) / 10) * 5, in tenths
temp_factor(temp_c) == Max(0, temp_c - 25) * 5

\* (humidity - 50) / 50 * 10, in tenths
humidity_factor(humidity) == (humidity - 50) * 2

\* max(0, (10 - wind_kph) / 10) * 15, in tenths
wind_factor(wind_kph) == Max(0, 10 - wind_kph) * 15

\* predict_pm25 without the max(5, ...)
predict_pm25_unfloored(weather_data) ==
    LET predicted_pm25 == 350 + temp_factor(weather_data.temp_c)
                          + humidity_factor(weather_data.humidity)
                          + wind_factor(weather_data.wind_kph)
    IN Min(predicted_pm25, 2000)

predict_pm25(weather_data) ==
    LET predicted_pm25 == 350 + temp_factor(weather_data.temp_c)
                          + humidity_factor(weather_data.humidity)
                          + wind_factor(weather_data.wind_kph)
    IN Max(50, Min(predicted_pm25, 2000))

WeatherRequests ==
    [op : {"predict_pm25"},
     weather_data : [temp_c : Temperatures, humidity : Humidities,
                     wind_kph : Winds]]

InitWeather ==
    /\ req \in WeatherRequests
    /\ pc = "ready"
    /\ res = NoResult
    /\ prev = NoCall
    /\ view = NoView
    /\ net = NoNet

PredictPm25 ==
    /\ pc = "ready"
    /\ req.op = "predict_pm25"
    /\ res' = [pm25 |-> predict_pm25(req.weather_data)]
    /\ pc' = "done"
    /\ UNCHANGED <<req, prev, view, net>>

NextWeather == PredictPm25

SpecWeather == InitWeather /\ [][NextWeather]_vars

----------------------------------------------------------------------------
\* SmartCitiesModule.predict_air_quality_trends (PM2.5 in hundredths)

\* an hourly object of the trend input: air_quality and pm2_5_key tell
\* whether it carries the air_quality object and, in it, the pm2_5 field;
\* weather_keys tells whether it carries time, temp_c, humidity, wind_kph and
\* pressure_mb
TrendHour(air_quality, pm2_5_key, pm2_5, weather_keys, weather) ==
    [air_quality |-> air_quality, pm2_5_key |-> pm2_5_key, pm2_5 |-> pm2_5,
     weather_keys |-> weather_keys, weather |-> weather, time |-> <<0, 0>>]

MildWeather == [temp_c |-> 30, humidity |-> 50, wind_kph |-> 10]
HotWeather == [temp_c |-> 350, humidity |-> 160, wind_kph |-> 0]
DryWeather == [temp_c |-> -10, humidity |-> -160, wind_kph |-> 20]

TrendHourKinds ==
    {TrendHour(TRUE, TRUE, 0, TRUE, MildWeather),
     TrendHour(TRUE, TRUE, 2000, TRUE, HotWeather),
     TrendHour(FALSE, FALSE, 0, TRUE, MildWeather),
     TrendHour(FALSE, FALSE, 0, TRUE, HotWeather),
     TrendHour(TRUE, FALSE, 0, TRUE, DryWeather),
     TrendHour(TRUE, TRUE, 2000, FALSE, MildWeather)}

TrendDayBodies ==
    {[hour_key |-> FALSE, hours |-> <<>>]}
    \cup {[hour_key |-> TRUE, hours |-> h] :
            h \in SeqsUpTo(TrendHourKinds, MaxHours)}

\* day i carries date i and its hour j the time <<i, j>>
TrendDays(bodies) ==
    [i \in 1..Len(bodies) |->
        [date |-> i, hour_key |-> bodies[i].hour_key,
         hours |-> [j \in 1..Len(bodies[i].hours) |->
                      [bodies[i].hours[j] EXCEPT !.time = <<i, j>>]]]]

TrendForecasts ==
    {NoForecastFetched, NoForecastSection}
    \cup {Forecast(TRUE, TRUE, TrendDays(b)) :
            b \in SeqsUpTo(TrendDayBodies, MaxDays)}

\* the hours of the days, one after the other
RECURSIVE HoursInOrder(_)
HoursInOrder(days) ==
    IF days = <<>> THEN <<>>
    ELSE HoursOf(Head(days)) \o HoursInOrder(Tail(days))

\* air_quality.get('pm2_5', self.predict_pm25(hour)) with the estimate that
\* ignores the provider's field
PredictedPm25_estimate_always(hour) == 10 * predict_pm25(hour.weather)

\* air_quality.get('pm2_5', self.predict_pm25(hour)), air_quality being
\* hour.get('air_quality', {})
PredictedPm25(hour) ==
    IF hour.air_quality /\ hour.pm2_5_key THEN hour.pm2_5
    ELSE 10 * predict_pm25(hour.weather)

\* the entry appended for an hour
Prediction(hour) ==
    [datetime |-> hour.time,
     predicted_pm25 |-> PredictedPm25(hour),
     predicted_aqi |-> SC_calculate_aqi(PredictedPm25(hour))]

predict_air_quality_trends(forecast_data, days) ==
    IF ~forecast_data.fetched \/ ~forecast_data.forecast THEN [status |-> "None"]
    ELSE
      LET hours == HoursInOrder(FirstDays(forecast_data.forecastday, days))
      IN IF \E k \in 1..Len(hours) : ~hours[k].weather_keys
         THEN [status |-> "KeyError"]
         ELSE [status |-> "ok",
               daily_predictions |->
                 [k \in 1..Len(hours) |-> Prediction(hours[k])]]

TrendRequests ==
    [op : {"predict_air_quality_trends"}, forecast_data : TrendForecasts,
     days : 0..(MaxDays + 1)]

InitTrends ==
    /\ req \in TrendRequests
    /\ pc = "ready"
    /\ res = NoResult
    /\ prev = NoCall
    /\ view = NoView
    /\ net = NoNet

PredictAirQualityTrends ==
    /\ pc = "ready"
    /\ req.op = "predict_air_quality_trends"
    /\ res' = predict_air_quality_trends(req.forecast_data, req.days)
    /\ pc' = "done"
    /\ UNCHANGED <<req, prev, view, net>>

NextTrends == PredictAirQualityTrends

SpecTrends == InitTrends /\ [][NextTrends]_vars

\* the two operations of the forecast path
InitForecastPath == InitForecast \/ InitTrends
NextForecastPath == NextForecast \/ NextTrends
SpecForecastPath == InitForecastPath /\ [][NextForecastPath]_vars

----------------------------------------------------------------------------
\* Properties of the AQI converter (checked under SpecAqi)

\* C1: calculate_aqi is monotonically non-decreasing: of two calls of
\* SmartCitiesModule.calculate_aqi with inputs a <= b on the grid of
\* hundredths, the later result is no smaller than the earlier one.
C1_Monotonic ==
    (Done("SmartCities.calculate_aqi") /\ prev # NoCall
       /\ prev.pm25 <= req.pm25)
    => prev.aqi <= res.aqi

\* C2: calculate_aqi returns the stated boundary values: aqi(0) = 0,
\* aqi(12) = 50, aqi(35.4) = 100, aqi(55.4) = 150, aqi(150.4) = 200 and
\* aqi(300) = 300.
C2_BoundaryValues ==
    Done("SmartCities.calculate_aqi") =>
        /\ req.pm25 = 0 => res.aqi = 0
        /\ req.pm25 = 1200 => res.aqi = 50
        /\ req.pm25 = 3540 => res.aqi = 100
        /\ req.pm25 = 5540 => res.aqi = 150
        /\ req.pm25 = 15040 => res.aqi = 200
        /\ req.pm25 = 30000 => res.aqi = 300

C2_Witness ==
    /\ Done("SmartCities.calculate_aqi")
    /\ req.pm25 = 3540
    /\ res.aqi = 100

\* C3: for every PM2.5 value inside a band of the breakpoint table,
\* calculate_aqi returns a value inside that band's AQI range: 0-12 gives
\* 0..50, 12.1-35.4 gives 51..100, 35.5-55.4 gives 101..150, 55.5-150.4 gives
\* 151..200 and 150.5-250.4 gives 201..300.
C3_BandRanges ==
    Done("Travel.calculate_aqi") =>
        /\ req.pm25 \in 0..1200 => res.aqi \in 0..50
        /\ req.pm25 \in 1210..3540 => res.aqi \in 51..100
        /\ req.pm25 \in 3550..5540 => res.aqi \in 101..150
        /\ req.pm25 \in 5550..15040 => res.aqi \in 151..200
        /\ req.pm25 \in 15050..25040 => res.aqi \in 201..300

\* C4: for every PM2.5 input >= 0, calculate_aqi returns an integer in
\* [0, 300], and every input above the top breakpoint 250.4 returns 300.
C4_RangeAndClamp ==
    Done("RealEstate.calculate_aqi") =>
        /\ res.aqi \in 0..300
        /\ req.pm25 > 25040 => res.aqi = 300

C4_Witness ==
    /\ Done("RealEstate.calculate_aqi")
    /\ req.pm25 > 25040
    /\ res.aqi = 300

----------------------------------------------------------------------------
\* Properties of the scoring operations (checked under SpecScore)

Returned(op) == Done(op) /\ res.status = "ok"

\* C5: the returned scores are bounded: total_yield_loss is in [0, 50],
\* overall_risk_score is in [0, 10] and suitability_score is in [0, 100].
C5_ScoresBounded ==
    /\ Returned("predict_crop_impact") =>
         /\ res.total_yield_loss >= 0
         /\ res.total_yield_loss <= 50 * ScoreScale
    /\ Returned("assess_health_risk") =>
         /\ res.overall_risk_score >= 0
         /\ res.overall_risk_score <= 10 * ScoreScale
    /\ Returned("assess_site_suitability") =>
         /\ res.suitability_score >= 0
         /\ res.suitability_score <= 3 * 100

\* a crop total that the ceiling of 50 cut down
C5_Witness ==
    /\ Returned("predict_crop_impact")
    /\ YieldLoss(res.pollutant_impacts) > 50 * ScoreScale
    /\ res.total_yield_loss = 50 * ScoreScale

\* the concentration, in hundredths, whose normalized ratio is exactly 3.0
ClipPoint(pollutant) == 3 * 100 * Reference[pollutant]

\* C6: clip idempotence: in predict_crop_impact and in assess_health_risk a
\* concentration whose normalized ratio exceeds 3.0 gives the same
\* per-pollutant contribution as the concentration whose ratio is exactly 3.0.
C6_ClipIdempotence ==
    /\ Returned("predict_crop_impact") =>
         \A pollutant \in DOMAIN res.pollutant_impacts :
            res.pollutant_impacts[pollutant].value > ClipPoint(pollutant) =>
               res.pollutant_impacts[pollutant].impact_percent
                 = CropImpact(Sensitivity(req.crop_type)[pollutant],
                              ClipPoint(pollutant), pollutant)
    /\ Returned("assess_health_risk") =>
         \A pollutant \in DOMAIN res.pollutant_risks :
            res.pollutant_risks[pollutant].value > ClipPoint(pollutant) =>
               res.pollutant_risks[pollutant].risk_score
                 = RiskScore(res.profile[pollutant], ClipPoint(pollutant),
                             pollutant)

C6_Witness ==
    /\ Returned("predict_crop_impact")
    /\ res.pollutant_impacts["o3"].value > ClipPoint("o3")
    /\ res.pollutant_impacts["o3"].impact_percent > 0

\* C7: the label ladders are total and non-overlapping with the stated
\* thresholds: get_risk_level gives Low below 2, Moderate from 2 below 5, High
\* from 5 below 10 and Critical from 10; get_health_risk_level gives Low
\* below 2, Moderate below 4, High below 6, Very High below 8, else Hazardous.
C7_Ladders ==
    /\ Done("get_risk_level") =>
         /\ res.label \in {"Low", "Moderate", "High", "Critical"}
         /\ res.label = "Low" <=> req.score < 2 * ScoreScale
         /\ res.label = "Moderate" <=>
              (2 * ScoreScale <= req.score /\ req.score < 5 * ScoreScale)
         /\ res.label = "High" <=>
              (5 * ScoreScale <= req.score /\ req.score < 10 * ScoreScale)
         /\ res.label = "Critical" <=> req.score >= 10 * ScoreScale
    /\ Done("get_health_risk_level") =>
         /\ res.label \in {"Low", "Moderate", "High", "Very High", "Hazardous"}
         /\ res.label = "Low" <=> req.score < 2 * ScoreScale
         /\ res.label = "Moderate" <=>
              (2 * ScoreScale <= req.score /\ req.score < 4 * ScoreScale)
         /\ res.label = "High" <=>
              (4 * ScoreScale <= req.score /\ req.score < 6 * ScoreScale)
         /\ res.label = "Very High" <=>
              (6 * ScoreScale <= req.score /\ req.score < 8 * ScoreScale)
         /\ res.label = "Hazardous" <=> req.score >= 8 * ScoreScale

\* a score exactly on a threshold takes the upper label
C7_Witness ==
    /\ Done("get_risk_level")
    /\ req.score = 2 * ScoreScale
    /\ res.label = "Moderate"

\* the crops of the sensitivity table; a crop type names one of them whatever
\* its letter case
KnownCrops == {"wheat", "rice", "corn", "soybean", "cotton"}

\* C8: for every crop key that is none of wheat, rice, corn, soybean, cotton
\* and every reading, predict_crop_impact returns what a request with crop key
\* "wheat" returns on the same payload, and signals no error.
C8_UnknownCropIsWheat ==
    (Done("predict_crop_impact") /\ Lower(req.crop_type) \notin KnownCrops) =>
        /\ res = predict_crop_impact(req.air_data, "wheat")
        /\ (~NoCurrent(req.air_data) /\ req.air_data.location)
             => res.status = "ok"

C8_Witness ==
    /\ Returned("predict_crop_impact")
    /\ req.crop_type = "durian"
    /\ res.total_yield_loss > 0

\* the profile the decision table of the claim names
C9_Table(age_group, conditions) ==
    IF conditions.given /\ "asthma" \in conditions.items
    THEN risk_profiles["asthma"]
    ELSE IF conditions.given /\ "heart_disease" \in conditions.items
    THEN risk_profiles["heart_disease"]
    ELSE IF age_group \in {"child", "adult", "elderly"}
    THEN risk_profiles[age_group]
    ELSE risk_profiles["adult"]

\* C9: profile selection in assess_health_risk is the decision table: asthma
\* if flagged, else heart_disease if flagged, else the profile of the age
\* group child, adult or elderly, and the adult profile for any other age
\* group.
C9_ProfileSelection ==
    Returned("assess_health_risk") =>
        res.profile = C9_Table(req.age_group, req.conditions)

\* the reading PM2.5 = 10, O3 = 50, NO2 = 20, SO2 = 5
ExampleReading == [pm2_5 |-> 1000, o3 |-> 5000, no2 |-> 2000, so2 |-> 500]

C10_Case ==
    /\ Done("predict_crop_impact")
    /\ req.crop_type = "wheat"
    /\ req.air_data = Payload(TRUE, TRUE, TRUE, TRUE, {}, ExampleReading)

\* C10: for the reading PM2.5 = 10, O3 = 50, NO2 = 20, SO2 = 5 and the wheat
\* profile the contributions are O3 = 6, PM2.5 = 20/3, NO2 = 2.5 and SO2 = 2,
\* the total is 103/6 (about 17.17), which the ceiling of 50 leaves
\* unchanged, and the label of that total is "Critical".
C10_WheatExample ==
    C10_Case =>
        /\ res.status = "ok"
        /\ res.pollutant_impacts["o3"].impact_percent = 6 * ScoreScale
        /\ 3 * res.pollutant_impacts["pm25"].impact_percent = 20 * ScoreScale
        /\ 2 * res.pollutant_impacts["no2"].impact_percent = 5 * ScoreScale
        /\ res.pollutant_impacts["so2"].impact_percent = 2 * ScoreScale
        /\ 6 * res.total_yield_loss = 103 * ScoreScale
        /\ res.total_yield_loss = YieldLoss(res.pollutant_impacts)
        /\ get_risk_level(res.total_yield_loss) = "Critical"

C10_Witness ==
    /\ C10_Case
    /\ res.status = "ok"
    /\ res.total_yield_loss > 17 * ScoreScale
    /\ res.total_yield_loss < 18 * ScoreScale

----------------------------------------------------------------------------
\* Properties of the scoring operations on incomplete payloads

\* the three operations that score one payload
PayloadOps == {"predict_crop_impact", "assess_health_risk",
               "assess_site_suitability"}

\* C11: whenever the payload carries `current` but no air_quality object,
\* predict_crop_impact, assess_health_risk and assess_site_suitability return
\* None, never a score computed from an all-zero default reading.
C11_NoFabricatedScore ==
    (pc = "done" /\ req.op \in PayloadOps
       /\ ~NoCurrent(req.air_data) /\ ~req.air_data.air_quality) =>
        res.status = "None"

\* the fetch failed or the payload lacks a section the operation reads
LacksSection(data, sections) ==
    \/ ~data.fetched
    \/ "current" \in sections /\ ~data.current
    \/ "location" \in sections /\ ~data.location

\* the request carries a failed fetch or a payload without a required section
MissingSection ==
    CASE req.op \in {"predict_crop_impact", "assess_site_suitability"} ->
           LacksSection(req.air_data, {"current", "location"})
      [] req.op = "assess_health_risk" ->
           LacksSection(req.air_data, {"current"})
      [] req.op = "optimize_low_pollution_route" ->
           \/ LacksSection(req.start_data, {"current", "location"})
           \/ LacksSection(req.end_data, {"current", "location"})
      [] req.op = "process_forecast_data" ->
           ~req.forecast_data.fetched \/ ~req.forecast_data.forecast
      [] OTHER -> FALSE

\* C12: if the fetch failed or the payload lacks a required section (current,
\* location or forecast), each of predict_crop_impact, assess_health_risk,
\* assess_site_suitability, optimize_low_pollution_route and
\* process_forecast_data returns None and raises nothing.
C12_MissingSectionIsNone ==
    (pc = "done" /\ MissingSection) => res.status = "None"

----------------------------------------------------------------------------
\* The scoring algorithm as the specification states it

\* concentration / reference clipped to 3.0, times ScoreScale, by division
\* (value is in hundredths)
ClippedRatio(value, reference) ==
    Min((value * (ScoreScale \div 100)) \div reference, 3 * ScoreScale)

\* the reading of a profile's pollutant in the request's payload
Concentration(pollutant) == Get(req.air_data, Field(pollutant))

\* coefficient * min(concentration/reference, 3.0) * 10, times ScoreScale,
\* for a health coefficient in tenths
HealthTerm(profile, pollutant, reference) ==
    profile[pollutant] * ClippedRatio(Concentration(pollutant), reference)

\* C18: the healthcare overall risk score is the sum over the four pollutants
\* of coefficient * min(concentration/reference, 3.0) * 10, divided by 4, and
\* only that average is clipped to 10.
C18_OverallRiskAsSpecified ==
    Returned("assess_health_risk") =>
        LET sum == HealthTerm(res.profile, "pm25", 15)
                   + HealthTerm(res.profile, "o3", 100)
                   + HealthTerm(res.profile, "so2", 20)
                   + HealthTerm(res.profile, "no2", 40)
        IN res.overall_risk_score = Min(sum \div 4, 10 * ScoreScale)

\* coefficient * min(concentration/reference, 3.0) * 100, times ScoreScale,
\* for the crop coefficient in hundredths of the request's crop profile
CropTerm(pollutant, reference) ==
    Sensitivity(req.crop_type)[pollutant]
    * ClippedRatio(Concentration(pollutant), reference)

\* C19: total_yield_loss is min(50, sum over PM2.5, O3, SO2, NO2 of
\* coefficient * min(concentration/reference, 3.0) * 100) with the references
\* 15, 100, 20 and 40; each impact_percent is its own term of the sum and each
\* risk_level is get_risk_level of that term.
C19_CropImpactAsSpecified ==
    Returned("predict_crop_impact") =>
        LET term == [pm25 |-> CropTerm("pm25", 15), o3 |-> CropTerm("o3", 100),
                     so2 |-> CropTerm("so2", 20), no2 |-> CropTerm("no2", 40)]
            sum == term["pm25"] + term["o3"] + term["so2"] + term["no2"]
        IN /\ res.total_yield_loss = Min(50 * ScoreScale, sum)
           /\ DOMAIN res.pollutant_impacts = {"pm25", "o3", "so2", "no2"}
           /\ \A pollutant \in DOMAIN term :
                /\ res.pollutant_impacts[pollutant].impact_percent
                     = term[pollutant]
                /\ res.pollutant_impacts[pollutant].risk_level
                     = get_risk_level(term[pollutant])

\* a reading with a clipped pollutant, every pollutant non-zero and a total
\* under the ceiling
C19_Witness ==
    /\ Returned("predict_crop_impact")
    /\ Concentration("o3") > ClipPoint("o3")
    /\ \A pollutant \in {"pm25", "o3", "so2", "no2"} :
          res.pollutant_impacts[pollutant].impact_percent > 0
    /\ res.total_yield_loss < 50 * ScoreScale

----------------------------------------------------------------------------
\* Properties of the page flows (checked under SpecFlow)

\* the run of the page's button has ended, by its last statement or by an
\* exception
Ended == pc \in {"done", "crashed"}

\* C13: in integrated_dashboard, whatever each fetch behind the table cells
\* returns (a payload, None, or a payload without `current`), a domain whose
\* scoring is unavailable is shown as 'N/A' and the rows of all other domains
\* and the location overview are still displayed. Stated for the runs in
\* which the page's own fetch returned a complete payload.
C13_Isolation ==
    (req.page = "integrated_dashboard" /\ Ended
       /\ view.air_data = OkPayload) =>
        /\ view.table
        /\ view.overview
        /\ Len(view.scores) = CellCount
        /\ \A i \in 1..CellCount :
              view.scores[i].shown \in {"N/A", "value"}

\* the narrative request was made and failed
NarrativeFailed ==
    view.narrative \in {"network_error", "http_error", "malformed_body"}

\* C14: if the narrative request fails (network error, HTTP error status or
\* malformed body), analyze_with_ai returns the placeholder beginning "AI
\* analysis unavailable" instead of raising, and in every page flow the scores
\* displayed before the call remain displayed.
C14_NarrativeFailureDegrades ==
    (req.op = "page" /\ Ended /\ NarrativeFailed) =>
        /\ pc = "done"
        /\ view.ai = Placeholder
        /\ view.table
        /\ view.scores = IF req.page = "integrated_dashboard" THEN view.cells
                         ELSE res

\* a module page that displayed a score and then got the placeholder
C14_Witness ==
    /\ req.page = "agriculture_module"
    /\ pc = "done"
    /\ view.narrative = "http_error"
    /\ view.ai = Placeholder
    /\ view.table
    /\ view.scores.status = "ok"
    /\ view.scores.total_yield_loss > 0

----------------------------------------------------------------------------
\* Properties of the forecast aggregator (checked under SpecForecast)

\* the forecast days handed to process_forecast_data
InputDays == req.forecast_data.forecastday

\* C15: process_forecast_data returns one row per forecast day of the input,
\* in the input's day order, row i carrying the date of input day i, and at
\* most `days` rows: min(days, number of forecast days) rows for days >= 0.
C15_RowsPerDay ==
    Returned("process_forecast_data") =>
        /\ Len(res.rows) = Min(req.days, Len(InputDays))
        /\ \A i \in 1..Len(res.rows) : res.rows[i].date = InputDays[i].date
        /\ \A i, j \in 1..Len(res.rows) :
              i < j => res.rows[i].date < res.rows[j].date

\* the cap cut the input: more forecast days than requested
C15_Witness ==
    /\ Returned("process_forecast_data")
    /\ req.days >= 1
    /\ Len(InputDays) > req.days
    /\ Len(res.rows) = req.days

\* the sum of a pollutant over the hours, of a day, that carry it
RECURSIVE PresentSum(_, _)
PresentSum(hours, pollutant) ==
    IF hours = <<>> THEN 0
    ELSE (IF pollutant \in Head(hours).absent THEN 0
          ELSE Head(hours).aq[pollutant])
         + PresentSum(Tail(hours), pollutant)

\* the hours of a day that carry the pollutant
PresentHours(hours, pollutant) ==
    {j \in 1..Len(hours) : pollutant \notin hours[j].absent}

\* the hours of a day that carry the pollutant with a non-zero value
NonZeroHours(hours, pollutant) ==
    {j \in PresentHours(hours, pollutant) : hours[j].aq[pollutant] # 0}

\* avg is the mean of the pollutant over the n hours counted, 0 if there are none
IsMeanOver(avg, hours, pollutant, n) ==
    IF n = 0 THEN avg.num = 0
    ELSE avg.num * n = avg.den * PresentSum(hours, pollutant)

\* C16: each pollutant's daily value is the arithmetic mean of exactly those
\* hours of the day whose value for that pollutant is present and non-zero; a
\* day with no such hour, including a day whose hourly list is empty or
\* missing, yields 0 for that pollutant and no error.
C16_MeanOfNonZeroHours ==
    (Done("process_forecast_data")
       /\ req.forecast_data.fetched /\ req.forecast_data.forecast) =>
        /\ res.status = "ok"
        /\ \A i \in 1..Len(res.rows) : \A pollutant \in Pollutants :
              IsMeanOver(res.rows[i].avg[pollutant], HoursOf(InputDays[i]),
                         pollutant,
                         Cardinality(NonZeroHours(HoursOf(InputDays[i]),
                                                  pollutant)))

\* C20: a daily value is the mean of all hourly readings of that date in
\* which the pollutant was present: an hour carrying the pollutant with value
\* 0 counts in the mean, in the sum and in the number of hours.
C20_MeanOfPresentHours ==
    Returned("process_forecast_data") =>
        \A i \in 1..Len(res.rows) : \A pollutant \in Pollutants :
            IsMeanOver(res.rows[i].avg[pollutant], HoursOf(InputDays[i]),
                       pollutant,
                       Cardinality(PresentHours(HoursOf(InputDays[i]),
                                                pollutant)))

----------------------------------------------------------------------------
\* Properties of predict_pm25 (checked under SpecWeather)

\* 35 + max(0,(temp_c-25)/10)*5 + (humidity-50)/50*10
\* + max(0,(10-wind_kph)/10)*15, times 100
UnclampedPm25(w) ==
    3500 + (Max(0, (w.temp_c - 25) * 10) * 5)
    + ((w.humidity - 50) * 100 * 10) \div 50
    + (Max(0, (10 - w.wind_kph) * 10) * 15)

\* C17: predict_pm25 returns the formula clamped to [5, 200]: the result is
\* >= 5 and <= 200 for every temperature, humidity and wind input, and equals
\* the unclamped formula whenever that lies inside [5, 200].
C17_ClampedFormula ==
    Done("predict_pm25") =>
        LET unclamped == UnclampedPm25(req.weather_data)
        IN /\ res.pm25 >= 50
           /\ res.pm25 <= 2000
           /\ (unclamped >= 500 /\ unclamped <= 20000) =>
                 10 * res.pm25 = unclamped
           /\ unclamped < 500 => res.pm25 = 50
           /\ unclamped > 20000 => res.pm25 = 2000

\* a dry input whose unclamped value lies under 5
C17_Witness ==
    /\ Done("predict_pm25")
    /\ UnclampedPm25(req.weather_data) < 500
    /\ res.pm25 = 50

----------------------------------------------------------------------------
\* Equivalence of the converter's copies (checked under SpecAqi)

\* C27: the three copies of the AQI converter return the same integer for
\* every PM2.5 input: whichever copy was called, its result is the result of
\* each of the three on that input.
C27_CopiesAgree ==
    (pc = "done" /\ req.op \in AqiOps) =>
        /\ res.aqi = SC_calculate_aqi(req.pm25)
        /\ res.aqi = TE_calculate_aqi(req.pm25)
        /\ res.aqi = RE_calculate_aqi(req.pm25)

\* the travel copy was called inside the gap after the first breakpoint
C27_Witness ==
    /\ Done("Travel.calculate_aqi")
    /\ req.pm25 > 1200
    /\ req.pm25 < 1210
    /\ res.aqi = RE_calculate_aqi(req.pm25)

----------------------------------------------------------------------------
\* Site suitability and route score (checked under SpecScore)

\* C23: assess_site_suitability returns suitability_score = max(0, 100 -
\* AQI/3) with AQI = calculate_aqi(pm2_5), and the label depends on the score
\* alone: High iff score > 80, Moderate iff 50 < score <= 80, Low iff
\* score <= 50.
C23_SuitabilityAsSpecified ==
    Returned("assess_site_suitability") =>
        LET pm2_5 == Get(req.air_data, "pm2_5")
            score == res.suitability_score
        IN /\ res.aqi = RE_calculate_aqi(pm2_5)
           /\ (3 * 100 - res.aqi >= 0) => score = 3 * 100 - res.aqi
           /\ (3 * 100 - res.aqi < 0) => score = 0
           /\ res.suitability_level \in {"High", "Moderate", "Low"}
           /\ res.suitability_level = "High" <=> score > 3 * 80
           /\ res.suitability_level = "Moderate" <=>
                 (score > 3 * 50 /\ score <= 3 * 80)
           /\ res.suitability_level = "Low" <=> score <= 3 * 50

\* a site whose score is exactly 80, the upper end of Moderate
C23_Witness ==
    /\ Returned("assess_site_suitability")
    /\ res.suitability_score = 3 * 80
    /\ res.suitability_level = "Moderate"

\* the PM2.5 of a city's payload, an absent field counted as 0
CityPm25(data) == IF "pm2_5" \in data.absent THEN 0 ELSE data.aq.pm2_5

\* C24: optimize_low_pollution_route returns route_score = (start_aqi +
\* end_aqi) / 2, each AQI being calculate_aqi of that city's PM2.5 (absent
\* counted as 0); the status is Low Pollution iff route_score < 50, Moderate
\* Pollution iff 50 <= route_score < 100, High Pollution iff route_score >=
\* 100; and the score and status are the same with the two cities exchanged.
C24_RouteAsSpecified ==
    Returned("optimize_low_pollution_route") =>
        LET exchanged == optimize_low_pollution_route(req.end_data,
                                                      req.start_data)
        IN /\ res.start_aqi = TE_calculate_aqi(CityPm25(req.start_data))
           /\ res.end_aqi = TE_calculate_aqi(CityPm25(req.end_data))
           /\ res.route_score = res.start_aqi + res.end_aqi
           /\ res.route_status = "Low Pollution" <=> res.route_score < 2 * 50
           /\ res.route_status = "Moderate Pollution" <=>
                 (res.route_score >= 2 * 50 /\ res.route_score < 2 * 100)
           /\ res.route_status = "High Pollution" <=> res.route_score >= 2 * 100
           /\ exchanged.status = "ok"
           /\ exchanged.route_score = res.route_score
           /\ exchanged.route_status = res.route_status
           /\ exchanged.start_aqi = res.end_aqi
           /\ exchanged.end_aqi = res.start_aqi

\* a route from a city without a pm2_5 field to a heavily polluted one
C24_Witness ==
    /\ Returned("optimize_low_pollution_route")
    /\ "pm2_5" \in req.start_data.absent
    /\ res.start_aqi = 0
    /\ res.end_aqi > 200
    /\ res.route_status = "High Pollution"

----------------------------------------------------------------------------
\* Properties of the forecast path

\* every hourly object of the request's days carries its weather fields
WeatherComplete ==
    \A i \in 1..Len(InputDays) :
        \A j \in 1..Len(HoursOf(InputDays[i])) :
            "weather_keys" \in DOMAIN HoursOf(InputDays[i])[j] =>
                HoursOf(InputDays[i])[j].weather_keys

\* C21: process_forecast_data and predict_air_quality_trends complete without
\* raising for every forecast payload whose hourly objects lack the
\* air_quality object or lack individual pollutant fields.
C21_ToleratesMissingHourly ==
    (pc = "done"
       /\ req.op \in {"process_forecast_data", "predict_air_quality_trends"}
       /\ req.forecast_data.fetched /\ req.forecast_data.forecast
       /\ WeatherComplete) =>
        res.status = "ok"

\* the hours of the first `days` days of the request, in input order
TrendInput == HoursInOrder(SubSeq(InputDays, 1, Min(req.days, Len(InputDays))))

\* C22: in predict_air_quality_trends, for every hour that carries a pm2_5
\* field (0 included) predicted_pm25 is the provider's value, for every hour
\* without it predicted_pm25 is predict_pm25(hour); predicted_aqi is
\* calculate_aqi(predicted_pm25); the output holds one entry per hour, in
\* input order, over the first `days` days.
C22_EstimateOnlyWhenOmitted ==
    Returned("predict_air_quality_trends") =>
        /\ Len(res.daily_predictions) = Len(TrendInput)
        /\ \A k \in 1..Len(TrendInput) :
              LET hour == TrendInput[k]
                  entry == res.daily_predictions[k]
              IN /\ entry.datetime = hour.time
                 /\ (hour.air_quality /\ hour.pm2_5_key) =>
                       entry.predicted_pm25 = hour.pm2_5
                 /\ ~(hour.air_quality /\ hour.pm2_5_key) =>
                       entry.predicted_pm25 = 10 * predict_pm25(hour.weather)
                 /\ entry.predicted_aqi = SC_calculate_aqi(entry.predicted_pm25)

\* an hour reporting 0 keeps its 0 next to an hour that is estimated, with
\* the day cap cutting the input
C22_Witness ==
    /\ Returned("predict_air_quality_trends")
    /\ Len(InputDays) > req.days
    /\ \E k, l \in 1..Len(TrendInput) :
          /\ TrendInput[k].air_quality /\ TrendInput[k].pm2_5_key
          /\ TrendInput[k].pm2_5 = 0
          /\ res.daily_predictions[k].predicted_pm25 = 0
          /\ ~TrendInput[l].air_quality
          /\ res.daily_predictions[l].predicted_pm25 > 0

----------------------------------------------------------------------------
\* Consistency of the basic health advice (checked under SpecScore)

\* the advice tier a label maps to, by the opening words of its first sentence
TierOfLabel(label) ==
    CASE label = "Low" -> "Air quality is good"
      [] label = "Moderate" -> "Moderate air pollution"
      [] label = "High" -> "Unhealthy air quality"
      [] label \in {"Very High", "Hazardous"} -> "Hazardous air quality"

\* the tiers from the mildest to the gravest
TierRank(tier) ==
    CASE tier = "Air quality is good" -> 1
      [] tier = "Moderate air pollution" -> 2
      [] tier = "Unhealthy air quality" -> 3
      [] tier = "Hazardous air quality" -> 4

\* the advice list leads with the tier of the score's label
LeadsWithTier(recommendations, score) ==
    /\ Len(recommendations) >= 1
    /\ Head(recommendations) = TierOfLabel(get_health_risk_level(score))
    /\ TierRank(Head(recommendations))
         >= TierRank(TierOfLabel(get_health_risk_level(score)))

\* C29: for every overall score generate_health_recommendations returns a
\* non-empty list whose leading advice tier is fixed by the score: Low gets
\* the 'air quality is good' tier, Moderate the 'moderate air pollution' tier,
\* High the 'unhealthy air quality' tier, Very High and Hazardous the
\* 'hazardous air quality' tier; no label gets the tier of a lower label. The
\* same holds for the list and the label assess_health_risk returns together.
C29_AdviceMatchesLabel ==
    /\ Done("generate_health_recommendations") =>
          LeadsWithTier(res.recommendations, req.risk_score)
    /\ Returned("assess_health_risk") =>
          /\ LeadsWithTier(res.recommendations, res.overall_risk_score)
          /\ Head(res.recommendations) = TierOfLabel(res.overall_risk_level)

\* a score on the boundary of Very High with advice appended for a child
C29_Witness ==
    /\ Done("generate_health_recommendations")
    /\ req.risk_score = 6 * ScoreScale
    /\ req.age_group = "child"
    /\ Head(res.recommendations) = "Hazardous air quality"
    /\ Len(res.recommendations) >= 4

----------------------------------------------------------------------------
\* Properties of the clean-air scan (checked under SpecDestinations)

\* the city's fetch returned a payload with `current` and its AQI is < 50
IsClean(data) ==
    /\ data.fetched /\ data.current
    /\ TE_calculate_aqi(CityPm25(data)) < 50

\* C28: identify_clean_air_destinations returns, in the order of the input
\* list, exactly the cities whose fetch returned a payload with `current` and
\* whose AQI (PM2.5 absent counted as 0) is < 50; and a returned city always
\* has PM2.5 below the first breakpoint 12.
C28_CleanDestinations ==
    Returned("identify_clean_air_destinations") =>
        LET found == res.destinations
        IN /\ {found[n].city : n \in 1..Len(found)}
                = {k \in 1..Len(req.cities_data) : IsClean(req.cities_data[k])}
           /\ \A n, o \in 1..Len(found) : n < o => found[n].city < found[o].city
           /\ \A n \in 1..Len(found) :
                 CityPm25(req.cities_data[found[n].city]) < 1200

----------------------------------------------------------------------------
\* Properties of the provider calls (checked under SpecProvider)

\* the call's request was sent and failed
RequestFailed ==
    net.outcome \in {"network_error", "http_error", "malformed_body"}

\* C25: each invocation of get_air_quality_data, get_weather_forecast and
\* analyze_with_ai issues at most one HTTP request; when the request fails the
\* call returns without a second request, None for the two fetches, and
\* nothing is computed from the failed response.
C25_SingleAttempt ==
    req.op \in ProviderOps =>
        /\ net.requests <= 1
        /\ (pc = "responded" /\ RequestFailed) => res = NoResult
        /\ (pc = "done" /\ RequestFailed) =>
              /\ net.requests = 1
              /\ req.op # "analyze_with_ai" => res = [status |-> "None"]
              /\ req.op = "analyze_with_ai" =>
                    res = [status |-> "ok", text |-> Placeholder]

\* a forecast fetch, not the first call of the session, failed on the HTTP
\* status and returned None after its one request
C25_Witness ==
    /\ Done("get_weather_forecast")
    /\ net.calls > 1
    /\ net.outcome = "http_error"
    /\ net.requests = 1
    /\ res = [status |-> "None"]

\* what a scoring operation gets from a fetch that returned None
ScoresOfNone ==
    {predict_crop_impact(FailedPayload, "wheat").status,
     assess_health_risk(FailedPayload, "adult",
                        [given |-> FALSE, items |-> {}]).status,
     assess_site_suitability(FailedPayload).status,
     optimize_low_pollution_route(FailedPayload, FailedPayload).status,
     process_forecast_data(NoForecastFetched, 14).status}

\* C30: with an empty weather API key no HTTP request is ever issued, in any
\* sequence of calls: get_air_quality_data, get_weather_forecast and
\* analyze_with_ai each return None before contacting a provider, so every
\* scoring operation returns None; an empty narrative key alone never blocks
\* a request, the default key taking its place.
C30_EmptyKeyNoRequest ==
    req.op \in ProviderOps =>
        /\ req.weather_api_key = "" =>
              /\ net.total = 0
              /\ pc \in {"ready", "done"}
              /\ pc = "done" => (res = [status |-> "None"]
                                 /\ ScoresOfNone = {"None"})
        /\ (req.weather_api_key # "" /\ req.groq_api_key = "") =>
              (pc = "done" => (net.requests = 1 /\ net.outcome # "none"))

\* the third call of a session with an empty weather key: still no request
C30_Witness ==
    /\ req.op \in ProviderOps
    /\ req.weather_api_key = ""
    /\ net.calls = MaxCalls
    /\ pc = "done"
    /\ net.total = 0
    /\ res = [status |-> "None"]

----------------------------------------------------------------------------
\* Properties of the recommendation step of the page flows (checked under
\* SpecFlow)

\* the page has displayed its scores and is about to build the arguments of
\* its recommendation call, and the forecast aggregation yielded no result
\* (the fetch failed, or the payload has no `forecast` section)
AtRecommendationsWithoutForecast ==
    /\ req.op = "page"
    /\ pc = "displayed"
    /\ view.forecast.df = "None"

\* C26: in every page flow (agriculture, healthcare, real estate, smart
\* cities, travel, integrated), whenever the forecast aggregation yields no
\* result, the flow still completes: no error is raised while the arguments
\* of the recommendation call are prepared, and with a weather key the
\* recommendation request is issued.
C26_FlowCompletesWithoutForecast ==
    [][AtRecommendationsWithoutForecast =>
          /\ pc' = "done"
          /\ req.weather_api_key => view'.narrative # "none"]_vars

====
